---- MODULE Spec2Model ----
(***************************************************************************)
(* Model of Python-Clothes-Assistent/main.py: the Item/ItemManager classes *)
(* and the interactive find/add/quit loop over items.csv.                  *)
(*                                                                         *)
(* Text is modelled as a sequence of one-character strings, so that        *)
(* str.lower(), int(), csv.writer and csv.DictReader are computed on       *)
(* characters as Python computes them.  The characters are those of        *)
(* Latin-1, U+0000..U+00FF: on them lower() and int() agree with Python;   *)
(* characters beyond U+00FF (other scripts' letters, digits and spaces)    *)
(* are outside the model.                                                  *)
(***************************************************************************)
EXTENDS Integers, Sequences, FiniteSets, TLC

VARIABLES
    file,     \* contents of items.csv, a sequence of characters
    items,    \* item_manager.items
    pc,       \* "prompt" | "exited" | "crashed"
    err,      \* exception that ended the process ("" when none)
    inp,      \* what the user typed for the last action: [action, args]
    calls,    \* categories choose_item was called with by the last find
    chosen,   \* what each of those calls returned (<<>> is None)
    out,      \* lines printed by the last action
    added     \* items add_item appended and wrote in this session

vars == <<file, items, pc, err, inp, calls, chosen, out, added>>

----------------------------------------------------------------------------
(* Bounds of the model *)

MaxItems == 3        \* add is offered while the catalog is shorter than this
MaxCodePoint == 255  \* text is over the characters U+0000..U+00FF (Latin-1)
MaxBelowZero == 30   \* temperature_check is applied to -MaxBelowZero..MaxTemp
MaxTemp == 40

----------------------------------------------------------------------------
(* Text helpers *)

SeqMax(S) == CHOOSE m \in S : \A x \in S : x <= m

\* the characters str.lower() changes, each with its code point and its
\* lower-case form
UpperCase ==
    << <<"A", 65, "a">>, <<"B", 66, "b">>, <<"C", 67, "c">>, <<"D", 68, "d">>,
       <<"E", 69, "e">>, <<"F", 70, "f">>, <<"G", 71, "g">>, <<"H", 72, "h">>,
       <<"I", 73, "i">>, <<"J", 74, "j">>, <<"K", 75, "k">>, <<"L", 76, "l">>,
       <<"M", 77, "m">>, <<"N", 78, "n">>, <<"O", 79, "o">>, <<"P", 80, "p">>,
       <<"Q", 81, "q">>, <<"R", 82, "r">>, <<"S", 83, "s">>, <<"T", 84, "t">>,
       <<"U", 85, "u">>, <<"V", 86, "v">>, <<"W", 87, "w">>, <<"X", 88, "x">>,
       <<"Y", 89, "y">>, <<"Z", 90, "z">>, <<"À", 192, "à">>, <<"Á", 193, "á">>,
       <<"Â", 194, "â">>, <<"Ã", 195, "ã">>, <<"Ä", 196, "ä">>, <<"Å", 197, "å">>,
       <<"Æ", 198, "æ">>, <<"Ç", 199, "ç">>, <<"È", 200, "è">>, <<"É", 201, "é">>,
       <<"Ê", 202, "ê">>, <<"Ë", 203, "ë">>, <<"Ì", 204, "ì">>, <<"Í", 205, "í">>,
       <<"Î", 206, "î">>, <<"Ï", 207, "ï">>, <<"Ð", 208, "ð">>, <<"Ñ", 209, "ñ">>,
       <<"Ò", 210, "ò">>, <<"Ó", 211, "ó">>, <<"Ô", 212, "ô">>, <<"Õ", 213, "õ">>,
       <<"Ö", 214, "ö">>, <<"Ø", 216, "ø">>, <<"Ù", 217, "ù">>, <<"Ú", 218, "ú">>,
       <<"Û", 219, "û">>, <<"Ü", 220, "ü">>, <<"Ý", 221, "ý">>, <<"Þ", 222, "þ">> >>

\* the cased characters of the model's character set
UpperToLower ==
    LET cased == {i \in 1..Len(UpperCase) : UpperCase[i][2] <= MaxCodePoint}
    IN  [c \in {UpperCase[i][1] : i \in cased} |->
            UpperCase[CHOOSE i \in cased : UpperCase[i][1] = c][3]]

\* str.lower()
lower(s) == [i \in 1..Len(s) |->
                IF s[i] \in DOMAIN UpperToLower THEN UpperToLower[s[i]] ELSE s[i]]

Digits == {"0","1","2","3","4","5","6","7","8","9"}

DigitVal(c) ==
    CASE c = "0" -> 0 [] c = "1" -> 1 [] c = "2" -> 2 [] c = "3" -> 3 [] c = "4" -> 4
      [] c = "5" -> 5 [] c = "6" -> 6 [] c = "7" -> 7 [] c = "8" -> 8 [] c = "9" -> 9

\* the characters int() strips, each with its code point: tab, line feed,
\* vertical tab, form feed, carriage return, space, next line (U+0085) and
\* no-break space (U+00A0)
SpaceChars ==
    << <<"\t", 9>>, <<"\n", 10>>, <<"", 11>>, <<"\f", 12>>, <<"\r", 13>>,
       <<" ", 32>>, <<"", 133>>, <<" ", 160>> >>

Whitespace ==
    {SpaceChars[i][1] : i \in {j \in 1..Len(SpaceChars) : SpaceChars[j][2] <= MaxCodePoint}}

\* str.strip() as int() applies it
RECURSIVE strip(_)
strip(s) ==
    IF s = <<>> THEN s
    ELSE IF Head(s) \in Whitespace THEN strip(Tail(s))
    ELSE IF s[Len(s)] \in Whitespace THEN strip(SubSeq(s, 1, Len(s) - 1))
    ELSE s

RECURSIVE DigitsValue(_)
DigitsValue(s) ==
    IF s = <<>> THEN 0
    ELSE IF s[Len(s)] = "_" THEN DigitsValue(SubSeq(s, 1, Len(s) - 1))
    ELSE DigitsValue(SubSeq(s, 1, Len(s) - 1)) * 10 + DigitVal(s[Len(s)])

\* the digit part of an int() literal: digits, single underscores between them
IsDigitPart(s) ==
    /\ s # <<>>
    /\ \A i \in 1..Len(s) : s[i] \in Digits \cup {"_"}
    /\ s[1] # "_"
    /\ s[Len(s)] # "_"
    /\ \A i \in 1..(Len(s) - 1) : ~(s[i] = "_" /\ s[i + 1] = "_")

\* int(text): [ok |-> FALSE] stands for ValueError
int(text) ==
    LET t == strip(text)
        signed == t # <<>> /\ t[1] \in {"+", "-"}
        body == IF signed THEN Tail(t) ELSE t
    IN  IF IsDigitPart(body)
        THEN [ok |-> TRUE,
              val |-> IF signed /\ t[1] = "-" THEN 0 - DigitsValue(body)
                      ELSE DigitsValue(body)]
        ELSE [ok |-> FALSE, val |-> 0]

----------------------------------------------------------------------------
(* class Item *)

Item(category, name, color, temperature, style, weather) ==
    [name |-> name, color |-> color, temperature |-> temperature,
     style |-> style, category |-> category, weather |-> weather]

\* Item.__str__
ItemStr(item) == item.name \o <<"/">> \o item.color

----------------------------------------------------------------------------
(* ItemManager constants *)

CATEGORY_JACKET == <<"j","a","c","k","e","t">>
CATEGORY_SHIRT == <<"s","h","i","r","t">>
CATEGORY_PANTS == <<"p","a","n","t","s">>
CATEGORY_SHOES == <<"s","h","o","e","s">>

TEMPERATURE_HOT == <<"h","o","t">>
TEMPERATURE_MEDIUM == <<"m","e","d","i","u","m">>
TEMPERATURE_COLD == <<"c","o","l","d">>

STYLE_CASUAL == <<"c","a","s","u","a","l">>
STYLE_FORMAL == <<"f","o","r","m","a","l">>

----------------------------------------------------------------------------
(* csv.writer(file).writerow(row), excel dialect, QUOTE_MINIMAL *)

CsvSpecial == {",", "\"", "\r", "\n"}

RECURSIVE DoubleQuotes(_)
DoubleQuotes(s) ==
    IF s = <<>> THEN <<>>
    ELSE (IF Head(s) = "\"" THEN <<"\"", "\"">> ELSE <<Head(s)>>)
         \o DoubleQuotes(Tail(s))

WriteField(f) ==
    IF \E i \in 1..Len(f) : f[i] \in CsvSpecial
    THEN <<"\"">> \o DoubleQuotes(f) \o <<"\"">>
    ELSE f

RECURSIVE JoinFields(_)
JoinFields(row) ==
    IF Len(row) = 1 THEN WriteField(row[1])
    ELSE WriteField(Head(row)) \o <<",">> \o JoinFields(Tail(row))

writerow(row) == JoinFields(row) \o <<"\r", "\n">>

----------------------------------------------------------------------------
(* csv.reader over open(filename, 'r', newline=''), excel dialect *)

EOL == "EOL"

\* the file iterator: lines end at \n, \r\n or a lone \r, endings kept; the
\* last line may be unterminated
SplitLines(text) ==
    LET ends == {i \in 1..Len(text) :
                    \/ text[i] = "\n"
                    \/ text[i] = "\r" /\ (i = Len(text) \/ text[i + 1] # "\n")
                    \/ i = Len(text)}
        End(k) == CHOOSE e \in ends : Cardinality({x \in ends : x <= e}) = k
    IN  [k \in 1..Cardinality(ends) |->
            SubSeq(text, IF k = 1 THEN 1 ELSE End(k - 1) + 1, End(k))]

ParserInit == [state |-> "START_RECORD", field |-> <<>>, fields |-> <<>>]

SaveField(ps, next) ==
    [state |-> next, field |-> <<>>, fields |-> Append(ps.fields, ps.field)]

AddChar(ps, c, next) ==
    [state |-> next, field |-> Append(ps.field, c), fields |-> ps.fields]

AfterNewline(c) == IF c = EOL THEN "START_RECORD" ELSE "EAT_CRNL"

\* parse_process_char of the csv module, one character (or end of line)
parse_process_char(ps, c) ==
    LET nl == c \in {"\n", "\r", EOL}
        StartField ==
            IF nl THEN SaveField(ps, AfterNewline(c))
            ELSE IF c = "\"" THEN [ps EXCEPT !.state = "IN_QUOTED_FIELD"]
            ELSE IF c = "," THEN SaveField(ps, "START_FIELD")
            ELSE AddChar(ps, c, "IN_FIELD")
    IN  CASE ps.state = "START_RECORD" ->
                IF c = EOL THEN ps
                ELSE IF nl THEN [ps EXCEPT !.state = "EAT_CRNL"]
                ELSE StartField
          [] ps.state = "START_FIELD" -> StartField
          [] ps.state = "IN_FIELD" ->
                IF nl THEN SaveField(ps, AfterNewline(c))
                ELSE IF c = "," THEN SaveField(ps, "START_FIELD")
                ELSE AddChar(ps, c, "IN_FIELD")
          [] ps.state = "IN_QUOTED_FIELD" ->
                IF c = EOL THEN ps
                ELSE IF c = "\"" THEN [ps EXCEPT !.state = "QUOTE_IN_QUOTED_FIELD"]
                ELSE AddChar(ps, c, "IN_QUOTED_FIELD")
          [] ps.state = "QUOTE_IN_QUOTED_FIELD" ->
                IF c = "\"" THEN AddChar(ps, c, "IN_QUOTED_FIELD")
                ELSE IF c = "," THEN SaveField(ps, "START_FIELD")
                ELSE IF nl THEN SaveField(ps, AfterNewline(c))
                ELSE AddChar(ps, c, "IN_FIELD")
          [] ps.state = "EAT_CRNL" ->
                IF c = EOL THEN [ps EXCEPT !.state = "START_RECORD"]
                ELSE ps

\* the characters lo..hi of a line, fed to the parser in order (the test on
\* left.state makes the first half be evaluated before the second is entered)
RECURSIVE ParseChars(_, _, _, _)
ParseChars(ps, line, lo, hi) ==
    IF lo > hi THEN ps
    ELSE IF lo = hi THEN parse_process_char(ps, line[lo])
    ELSE LET mid == (lo + hi) \div 2
             left == ParseChars(ps, line, lo, mid)
         IN  IF left.state = "" THEN left ELSE ParseChars(left, line, mid + 1, hi)

\* one line of the file, then the end-of-line mark
ParseLine(ps, line) == parse_process_char(ParseChars(ps, line, 1, Len(line)), EOL)

\* the rows csv.reader yields: a row is complete once a line leaves the parser
\* in START_RECORD; at end of file an open field or quoted field is saved
RECURSIVE ReaderRows(_, _)
ReaderRows(lines, ps) ==
    IF lines = <<>>
    THEN IF ps.field # <<>> \/ ps.state = "IN_QUOTED_FIELD"
         THEN <<Append(ps.fields, ps.field)>>
         ELSE <<>>
    ELSE LET after == ParseLine(ps, Head(lines)) IN
         IF after.state = "START_RECORD"
         THEN <<after.fields>> \o ReaderRows(Tail(lines), ParserInit)
         ELSE ReaderRows(Tail(lines), after)

reader(text) == ReaderRows(SplitLines(text), ParserInit)

----------------------------------------------------------------------------
(* csv.DictReader and ItemManager.load_items *)

\* a field DictReader fills with restval (Python None)
NoneField == <<"None">>

ItemKeys == {<<"c","a","t","e","g","o","r","y">>, <<"n","a","m","e">>,
             <<"c","o","l","o","r">>,
             <<"t","e","m","p","e","r","a","t","u","r","e">>,
             <<"s","t","y","l","e">>, <<"w","e","a","t","h","e","r">>}

KeyCategory == <<"c","a","t","e","g","o","r","y">>
KeyName == <<"n","a","m","e">>
KeyColor == <<"c","o","l","o","r">>
KeyTemperature == <<"t","e","m","p","e","r","a","t","u","r","e">>
KeyStyle == <<"s","t","y","l","e">>
KeyWeather == <<"w","e","a","t","h","e","r">>

\* row[key] of the dict DictReader builds: dict(zip(fieldnames, row)), then the
\* field names beyond the row's length set to restval; the last duplicate wins
DictGet(fieldnames, row, key) ==
    LET at == {i \in 1..Len(fieldnames) : fieldnames[i] = key}
        last == SeqMax(at)
    IN  IF last > Len(row) THEN NoneField ELSE row[last]

RowItem(fieldnames, row) ==
    Item(DictGet(fieldnames, row, KeyCategory), DictGet(fieldnames, row, KeyName),
         DictGet(fieldnames, row, KeyColor), DictGet(fieldnames, row, KeyTemperature),
         DictGet(fieldnames, row, KeyStyle), DictGet(fieldnames, row, KeyWeather))

\* load_items on a file holding text: the first row is the header, empty rows
\* are skipped, and a header lacking one of the six columns raises KeyError at
\* the first record
load_items(text) ==
    LET rows == reader(text)
        fieldnames == Head(rows)
        data == SelectSeq(Tail(rows), LAMBDA r : r # <<>>)
    IN  IF rows = <<>> \/ data = <<>> THEN [err |-> "", items |-> <<>>]
        ELSE IF \E k \in ItemKeys : \A i \in 1..Len(fieldnames) : fieldnames[i] # k
        THEN [err |-> "KeyError", items |-> <<>>]
        ELSE [err |-> "",
              items |-> [i \in 1..Len(data) |-> RowItem(fieldnames, data[i])]]

----------------------------------------------------------------------------
(* ItemManager.temperature_check and ItemManager.choose_item *)

temperature_check_strict(temperature) ==
    IF temperature > 21 THEN TEMPERATURE_HOT
    ELSE IF temperature > 15 THEN TEMPERATURE_MEDIUM
    ELSE TEMPERATURE_COLD

temperature_check(temperature) ==
    IF temperature >= 21 THEN TEMPERATURE_HOT
    ELSE IF temperature >= 15 THEN TEMPERATURE_MEDIUM
    ELSE TEMPERATURE_COLD

valid_items_any_style(its, category, temperature, style) ==
    SelectSeq(its, LAMBDA item :
        /\ item.temperature = temperature_check(temperature)
        /\ item.category = category)

\* the list choose_item collects
valid_items(its, category, temperature, style) ==
    SelectSeq(its, LAMBDA item :
        /\ item.temperature = temperature_check(temperature)
        /\ item.style = style
        /\ item.category = category)

None == <<>>
Some(x) == <<x>>

choose_item_needs_two(its, category, temperature, style) ==
    LET valid == valid_items(its, category, temperature, style)
    IN  IF Len(valid) > 1 THEN {Some(valid[i]) : i \in 1..Len(valid)} ELSE {None}

\* the values choose_item can return: any of the valid items (random.choice),
\* or None when there is none
choose_item(its, category, temperature, style) ==
    LET valid == valid_items(its, category, temperature, style)
    IN  IF valid # <<>> THEN {Some(valid[i]) : i \in 1..Len(valid)} ELSE {None}

----------------------------------------------------------------------------
(* ItemManager.add_item *)

prepend_item(its, item) == <<item>> \o its

\* self.items.append(item)
append_item(its, item) == Append(its, item)

\* the Item add_item builds from the six answers, in the order of the prompts:
\* category, name, color, temperature, weather, style
entered_item(a) == Item(a[1], a[2], a[3], a[4], a[6], a[5])

\* the row add_item writes
item_row(a) == <<a[1], a[2], a[3], a[4], a[6], a[5]>>

----------------------------------------------------------------------------
(* the find branch of the main loop *)

RAINY == <<"r","a","i","n","y">>
SUNNY == <<"s","u","n","n","y">>

jacket_gate_and(weather, today_temperature) ==
    weather = RAINY /\ temperature_check(today_temperature) = TEMPERATURE_COLD

\* the condition of the if that prints the jacket line
jacket_gate(weather, today_temperature) ==
    weather = RAINY \/ temperature_check(today_temperature) = TEMPERATURE_COLD

\* print(f"Jacket: {jacket}" if jacket else "Jacket: Sorry, no suitable jacket");
\* a line is the sequence of its pieces, a literal being one piece
report_line(label, sorry, got) ==
    IF got # None THEN <<label>> \o ItemStr(got[1]) ELSE <<sorry>>

JacketLine(got) == report_line("Jacket: ", "Jacket: Sorry, no suitable jacket", got)
ShirtLine(got) == report_line("Shirt: ", "Shirt: Sorry, no suitable shirt", got)
PantsLine(got) == report_line("Pants: ", "Pants: Sorry, no suitable pants", got)
ShoesLine(got) == report_line("Shoes: ", "Shoes: Sorry, no suitable shoes", got)

OutfitHeader == <<"Today's Outfit:">>

outfit_report_all_or_nothing(weather, today_temperature, jacket, shirt, pants, shoes) ==
    IF shirt = None \/ pants = None \/ shoes = None
    THEN <<OutfitHeader>>
    ELSE IF jacket_gate(weather, today_temperature)
    THEN <<OutfitHeader, JacketLine(jacket), ShirtLine(shirt), PantsLine(pants),
           ShoesLine(shoes)>>
    ELSE <<OutfitHeader, ShirtLine(shirt), PantsLine(pants), ShoesLine(shoes)>>

\* the lines the find branch prints
outfit_report(weather, today_temperature, jacket, shirt, pants, shoes) ==
    IF jacket_gate(weather, today_temperature)
    THEN <<OutfitHeader, JacketLine(jacket), ShirtLine(shirt), PantsLine(pants),
           ShoesLine(shoes)>>
    ELSE <<OutfitHeader, ShirtLine(shirt), PantsLine(pants), ShoesLine(shoes)>>

\* the categories the find branch calls choose_item with, in call order
find_calls == <<CATEGORY_JACKET, CATEGORY_SHIRT, CATEGORY_PANTS, CATEGORY_SHOES>>

----------------------------------------------------------------------------
(* What the user types, and the files the program is started on *)

FIND == <<"f","i","n","d">>
ADD == <<"a","d","d">>
QUIT == <<"q","u","i","t">>

ActionTexts == {FIND, ADD, <<"A","d","d">>, QUIT, <<"Q","U","I","T">>,
                <<"h","e","l","p">>, <<>>}

TempTexts == {<<"-","3">>, <<"1","5">>, <<"2","1">>, <<" ","+","2","_","5","">>,
              <<"a","b","c">>, <<>>, <<"2","0",".","5">>}

StyleTexts == {STYLE_CASUAL, STYLE_FORMAL, <<"C","a","s","u","a","l">>}

WeatherTexts == {RAINY, SUNNY, <<"R","a","i","n","y">>}

\* answers to the six prompts of add_item, in the order of the prompts
AddInputs ==
    { <<CATEGORY_SHIRT, <<"T",",","e">>, <<"W","\"","h">>, TEMPERATURE_HOT, SUNNY,
        <<"C","a","s","u","a","l">> >>,
      <<CATEGORY_SHIRT, <<"P","o","l","o">>, <<"R","e","d">>, TEMPERATURE_HOT, RAINY,
        STYLE_CASUAL>>,
      <<CATEGORY_PANTS, <<"J","n","s">>, <<>>, TEMPERATURE_COLD, SUNNY,
        STYLE_FORMAL>> }

HeaderLine == <<"c","a","t","e","g","o","r","y",",","n","a","m","e",",",
                "c","o","l","o","r",",",
                "t","e","m","p","e","r","a","t","u","r","e",",",
                "s","t","y","l","e",",","w","e","a","t","h","e","r">>

ParkaLine == <<"j","a","c","k","e","t",",","P","a","r","k","a",",","B","l","u","e",",",
               "c","o","l","d",",","c","a","s","u","a","l",",","r","a","i","n","y">>

TeeLine == <<"s","h","i","r","t",",","T","e","e",",","W","h","i","t","e",",",
             "h","o","t",",","c","a","s","u","a","l",",","s","u","n","n","y">>

NL == <<"\n">>

\* items.csv at startup: empty; a header only; a header and two records; a
\* header and a record whose line is not terminated; two records and no header
InitFiles ==
    { <<>>,
      HeaderLine \o NL,
      HeaderLine \o NL \o ParkaLine \o NL \o TeeLine \o NL,
      HeaderLine \o NL \o ParkaLine,
      ParkaLine \o NL \o TeeLine \o NL }

NoInput == [action |-> <<>>, args |-> <<>>]

----------------------------------------------------------------------------
(* The program *)

\* item_manager = ItemManager("items.csv"); item_manager.load_items()
Init ==
    /\ file \in InitFiles
    /\ items = load_items(file).items
    /\ err = load_items(file).err
    /\ pc = IF load_items(file).err = "" THEN "prompt" ELSE "crashed"
    /\ inp = NoInput
    /\ calls = <<>>
    /\ chosen = <<>>
    /\ out = <<>>
    /\ added = <<>>

\* find with a temperature int() accepts
Find ==
    /\ pc = "prompt"
    /\ \E a \in ActionTexts, t \in TempTexts, s \in StyleTexts, w \in WeatherTexts :
        /\ lower(a) = FIND
        /\ int(t).ok
        /\ LET today_temperature == int(t).val
               today_style == lower(s)
               weather == lower(w)
           IN  \E jacket \in choose_item(items, CATEGORY_JACKET, today_temperature, today_style),
                  shirt \in choose_item(items, CATEGORY_SHIRT, today_temperature, today_style),
                  pants \in choose_item(items, CATEGORY_PANTS, today_temperature, today_style),
                  shoes \in choose_item(items, CATEGORY_SHOES, today_temperature, today_style) :
                    /\ calls' = find_calls
                    /\ chosen' = <<jacket, shirt, pants, shoes>>
                    /\ out' = outfit_report(weather, today_temperature,
                                            jacket, shirt, pants, shoes)
        /\ inp' = [action |-> a, args |-> <<t, s, w>>]
    /\ UNCHANGED <<file, items, pc, err, added>>

\* find with a temperature int() rejects: ValueError, uncaught, before the
\* style and weather prompts
FindValueError ==
    /\ pc = "prompt"
    /\ \E a \in ActionTexts, t \in TempTexts :
        /\ lower(a) = FIND
        /\ ~int(t).ok
        /\ inp' = [action |-> a, args |-> <<t>>]
    /\ pc' = "crashed"
    /\ err' = "ValueError"
    /\ calls' = <<>>
    /\ chosen' = <<>>
    /\ out' = <<>>
    /\ UNCHANGED <<file, items, added>>

\* add, the file opened and written
AddOk ==
    /\ pc = "prompt"
    /\ Len(items) < MaxItems
    /\ \E a \in ActionTexts, args \in AddInputs :
        /\ lower(a) = ADD
        /\ items' = append_item(items, entered_item(args))
        /\ file' = file \o writerow(item_row(args))
        /\ added' = Append(added, entered_item(args))
        /\ inp' = [action |-> a, args |-> args]
    /\ calls' = <<>>
    /\ chosen' = <<>>
    /\ out' = << <<"Item added successfully.">> >>
    /\ UNCHANGED <<pc, err>>

\* add, open(self.filename, 'a') raising OSError, uncaught
AddIOError ==
    /\ pc = "prompt"
    /\ Len(items) < MaxItems
    /\ \E a \in ActionTexts, args \in AddInputs :
        /\ lower(a) = ADD
        /\ items' = append_item(items, entered_item(args))
        /\ inp' = [action |-> a, args |-> args]
    /\ pc' = "crashed"
    /\ err' = "OSError"
    /\ calls' = <<>>
    /\ chosen' = <<>>
    /\ out' = <<>>
    /\ UNCHANGED <<file, added>>

Quit ==
    /\ pc = "prompt"
    /\ \E a \in ActionTexts :
        /\ lower(a) = QUIT
        /\ inp' = [action |-> a, args |-> <<>>]
    /\ pc' = "exited"
    /\ calls' = <<>>
    /\ chosen' = <<>>
    /\ out' = <<>>
    /\ UNCHANGED <<file, items, err, added>>

InvalidMessage == <<"Invalid action. Please choose again.">>

Invalid ==
    /\ pc = "prompt"
    /\ \E a \in ActionTexts :
        /\ lower(a) \notin {FIND, ADD, QUIT}
        /\ inp' = [action |-> a, args |-> <<>>]
    /\ calls' = <<>>
    /\ chosen' = <<>>
    /\ out' = <<InvalidMessage>>
    /\ UNCHANGED <<file, items, pc, err, added>>

Next == Find \/ FindValueError \/ AddOk \/ AddIOError \/ Quit \/ Invalid

Spec == Init /\ [][Next]_vars

----------------------------------------------------------------------------
(* temperature_check on its own, over a range of integers *)

InitTemperature ==
    /\ file = <<>>
    /\ items = <<>>
    /\ err = ""
    /\ pc = "temperature_check"
    /\ \E t \in (0 - MaxBelowZero)..MaxTemp :
            inp = [action |-> <<>>, args |-> <<t>>]
    /\ calls = <<>>
    /\ chosen = <<>>
    /\ out = <<>>
    /\ added = <<>>

ApplyTemperatureCheck ==
    /\ pc = "temperature_check"
    /\ out = <<>>
    /\ out' = <<temperature_check(inp.args[1])>>
    /\ UNCHANGED <<file, items, pc, err, inp, calls, chosen, added>>

SpecTemperature == InitTemperature /\ [][ApplyTemperatureCheck]_vars

----------------------------------------------------------------------------
(* Properties *)

\* the last action was a find that ran to its report
FindDone == pc = "prompt" /\ lower(inp.action) = FIND

\* the query of the last find, as the find branch reads it
QueryTemperature == int(inp.args[1]).val
QueryStyle == lower(inp.args[2])
QueryWeather == lower(inp.args[3])

\* an item matches the k-th choose_item call of the last find
Matches(item, k) ==
    /\ item.category = calls[k]
    /\ item.temperature = temperature_check(QueryTemperature)
    /\ item.style = QueryStyle

\* the jacket applies to the last query: rainy, or a cold temperature
JacketApplies ==
    QueryWeather = RAINY \/ temperature_check(QueryTemperature) = TEMPERATURE_COLD

JacketRequested == \E k \in 1..Len(calls) : calls[k] = CATEGORY_JACKET

JacketReported ==
    \E l \in 1..Len(out) :
        out[l][1] \in {"Jacket: ", "Jacket: Sorry, no suitable jacket"}

CategoryLabel(c) ==
    CASE c = CATEGORY_JACKET -> "Jacket: " [] c = CATEGORY_SHIRT -> "Shirt: "
      [] c = CATEGORY_PANTS -> "Pants: " [] c = CATEGORY_SHOES -> "Shoes: "

CategorySorry(c) ==
    CASE c = CATEGORY_JACKET -> "Jacket: Sorry, no suitable jacket"
      [] c = CATEGORY_SHIRT -> "Shirt: Sorry, no suitable shirt"
      [] c = CATEGORY_PANTS -> "Pants: Sorry, no suitable pants"
      [] c = CATEGORY_SHOES -> "Shoes: Sorry, no suitable shoes"

\* C1: whenever choose_item returns an item, the item is in the in-memory
\* catalog and has the category asked for, the band of the temperature asked
\* for and the style asked for, whichever matching item was picked.
C1_ChosenItemMatches ==
    FindDone =>
        \A k \in 1..Len(calls) :
            chosen[k] # None =>
                /\ \E i \in 1..Len(items) : items[i] = chosen[k][1]
                /\ chosen[k][1].category = calls[k]
                /\ chosen[k][1].temperature = temperature_check(QueryTemperature)
                /\ chosen[k][1].style = QueryStyle

\* a find returned an item for a call that two different items match, while
\* the catalog also holds an item that does not match
C1_Witness ==
    /\ FindDone
    /\ \E k \in 1..Len(calls) :
        /\ chosen[k] # None
        /\ \E i, j \in 1..Len(items) :
            /\ items[i] # items[j]
            /\ Matches(items[i], k)
            /\ Matches(items[j], k)
        /\ \E i \in 1..Len(items) : ~Matches(items[i], k)

\* C2: temperature_check returns exactly one band for every integer: hot for
\* T >= 21, medium for 15 <= T < 21, cold for T < 15, negative values included;
\* 21 -> hot, 20 -> medium, 15 -> medium, 14 -> cold.
C2_TemperatureBands ==
    out # <<>> =>
        LET T == inp.args[1]
            band == out[1]
        IN  /\ Len(out) = 1
            /\ band \in {TEMPERATURE_HOT, TEMPERATURE_MEDIUM, TEMPERATURE_COLD}
            /\ (T >= 21 => band = TEMPERATURE_HOT)
            /\ (T >= 15 /\ T < 21 => band = TEMPERATURE_MEDIUM)
            /\ (T < 15 => band = TEMPERATURE_COLD)
            /\ (T = 21 => band = TEMPERATURE_HOT)
            /\ (T = 20 => band = TEMPERATURE_MEDIUM)
            /\ (T = 15 => band = TEMPERATURE_MEDIUM)
            /\ (T = 14 => band = TEMPERATURE_COLD)

\* temperature_check was applied to the boundary value 15
C2_Witness == out = <<TEMPERATURE_MEDIUM>> /\ inp.args[1] = 15

\* C3: choose_item returns None exactly when no catalog item matches the
\* category, band and style, returns an item whenever one matches, and a find
\* whose temperature is an integer never raises, the catalog empty or not.
C3_NoneIffNoMatch ==
    /\ FindDone =>
        \A k \in 1..Len(calls) :
            (chosen[k] = None) <=> ~\E i \in 1..Len(items) : Matches(items[i], k)
    /\ (lower(inp.action) = FIND /\ int(inp.args[1]).ok) =>
            pc = "prompt" /\ err = "" /\ Len(chosen) = Len(find_calls)

\* a find on a non-empty catalog got None for one category and an item for
\* another
C3_Witness ==
    /\ FindDone
    /\ items # <<>>
    /\ \E k, j \in 1..Len(calls) : chosen[k] = None /\ chosen[j] # None

\* C4 as claimed: choose_item is called for the jacket, and a jacket line is
\* reported, if and only if the weather is rainy or the temperature is cold.
C4_JacketOnlyRequestedWhenApplicable ==
    FindDone =>
        /\ JacketRequested <=> JacketApplies
        /\ JacketReported <=> JacketApplies

\* C4 as amended: a jacket line is reported if and only if the weather is
\* rainy or the temperature is cold; choose_item is called for the jacket in
\* every find, first of the four calls, and its result is dropped when the
\* jacket does not apply.
C4_JacketReportedIffApplicable ==
    FindDone =>
        /\ JacketReported <=> JacketApplies
        /\ calls[1] = CATEGORY_JACKET

\* a sunny, hot query: choose_item was called for the jacket and no jacket
\* line is reported
C4_Witness ==
    /\ FindDone
    /\ QueryWeather = SUNNY
    /\ temperature_check(QueryTemperature) = TEMPERATURE_HOT
    /\ JacketRequested
    /\ ~JacketReported

\* the line the report should hold for the k-th call
ExpectedLine(k) ==
    IF chosen[k] = None THEN <<CategorySorry(calls[k])>>
    ELSE <<CategoryLabel(calls[k])>> \o chosen[k][1].name \o <<"/">>
         \o chosen[k][1].color

\* C8: a find reports one line per applicable category, in the order jacket
\* (when applicable), shirt, pants, shoes; each line shows the item chosen for
\* its category or "Sorry, no suitable <category>", whatever the other
\* categories got.
C8_ReportLines ==
    FindDone =>
        LET applicable == IF JacketApplies THEN <<1, 2, 3, 4>> ELSE <<2, 3, 4>>
        IN  /\ calls = <<CATEGORY_JACKET, CATEGORY_SHIRT, CATEGORY_PANTS, CATEGORY_SHOES>>
            /\ Len(out) = 1 + Len(applicable)
            /\ out[1] = <<"Today's Outfit:">>
            /\ \A n \in 1..Len(applicable) : out[n + 1] = ExpectedLine(applicable[n])

\* a report with the jacket line in which one category has an item and
\* another has none
C8_Witness ==
    /\ FindDone
    /\ JacketApplies
    /\ Len(out) = 5
    /\ \E k, j \in 1..Len(calls) : chosen[k] = None /\ chosen[j] # None

\* C9: the in-memory catalog only grows at its end: find, quit and invalid
\* actions leave it and the file unchanged, an add extends it by exactly the
\* entered item, and the catalog before a step is a prefix of the one after.
C9_CatalogAppendOnly ==
    [][ /\ Len(items) <= Len(items')
        /\ SubSeq(items', 1, Len(items)) = items
        /\ (lower(inp'.action) # ADD => items' = items /\ file' = file)
        /\ (lower(inp'.action) = ADD =>
                /\ Len(items') = Len(items) + 1
                /\ items'[Len(items')] =
                        [category |-> inp'.args[1], name |-> inp'.args[2],
                         color |-> inp'.args[3], temperature |-> inp'.args[4],
                         weather |-> inp'.args[5], style |-> inp'.args[6]]) ]_vars

\* an item was added to a catalog that already held a different item
C9_Witness ==
    /\ pc = "prompt"
    /\ added # <<>>
    /\ Len(items) >= 2
    /\ items[1] # items[Len(items)]
    /\ lower(inp.action) = ADD

\* an item is a record of the file: one of its rows holds the six fields
HasRecord(item, text) ==
    \E r \in 1..Len(reader(text)) :
        reader(text)[r] = <<item.category, item.name, item.color,
                            item.temperature, item.style, item.weather>>

\* C5: after a successful add, load_items in a fresh process yields the prior
\* records unchanged and in order, followed by the appended record once, its
\* six fields as entered.
C5_AppendThenLoad ==
    [][ file' # file =>
            /\ load_items(file').err = ""
            /\ load_items(file').items =
                    Append(load_items(file).items,
                           [category |-> inp'.args[1], name |-> inp'.args[2],
                            color |-> inp'.args[3], temperature |-> inp'.args[4],
                            weather |-> inp'.args[5], style |-> inp'.args[6]]) ]_vars

\* C6: add writes the record before it adds the item to the catalog: every
\* item of the catalog has a record in the file, and when the write fails the
\* file is as before and the catalog does not hold the unwritten item.
C6_WriteBeforeMemory ==
    [][ /\ \A i \in 1..Len(items') : HasRecord(items'[i], file')
        /\ (err' = "OSError" => file' = file /\ items' = items) ]_vars

\* C7: invalid input never ends the loop: after an unrecognized action and
\* after a non-integer temperature in find the program reports the problem
\* and is back at the prompt with the catalog unchanged; short of a failure
\* of the file system, the loop ends through quit only.
C7_InvalidInputKeepsLoop ==
    [][ /\ (lower(inp'.action) \notin {FIND, ADD, QUIT}
                \/ (lower(inp'.action) = FIND /\ ~int(inp'.args[1]).ok))
            => (pc' = "prompt" /\ out' # <<>> /\ items' = items /\ file' = file)
        /\ (pc' # "prompt" /\ err' # "OSError") => lower(inp'.action) = QUIT ]_vars

\* the report of the last find shows an item for category c
ReportsItem(c) ==
    \E l \in 2..Len(out) : out[l][1] = CategoryLabel(c) /\ Len(out[l]) > 1

\* C10: once an item of category K (jacket, shirt, pants or shoes), band B and
\* style S has been added, a find in the same session with a temperature in
\* band B and style S in any letter case reports an item for K (for the
\* jacket, when the jacket applies).
C10_AddedItemEligible ==
    FindDone =>
        \A n \in 1..Len(added) :
            ( /\ added[n].category \in {CATEGORY_JACKET, CATEGORY_SHIRT,
                                        CATEGORY_PANTS, CATEGORY_SHOES}
              /\ added[n].temperature = temperature_check(QueryTemperature)
              /\ lower(added[n].style) = QueryStyle
              /\ (added[n].category = CATEGORY_JACKET => JacketApplies) )
            => ReportsItem(added[n].category)

====
